---- MODULE Spec2Model ----
(***************************************************************************)
(* A model of the crawl-to-index ingestion pipeline of                     *)
(* arxiv-semantic-search:                                                  *)
(*   - the index builder   (src/src/index/build_index.py),                 *)
(*   - the feed harvester  (src/src/datasource/arxiv_crawler.py),          *)
(*   - the document enricher (src/src/preprocess/*.py).                    *)
(* Each stage is a sequential batch job working on directories of          *)
(* newline-delimited JSON files; the three stages are checked as three     *)
(* specifications over one set of variables.                               *)
(***************************************************************************)
EXTENDS Integers, Sequences, FiniteSets, TLC

VARIABLES
    \* ---- index builder (build_index.py) ----
    processedDir,   \* data/processed: file name -> file text (sequence of tokens)
    indexDir,       \* index/faiss: artifact name -> [present, data]
    builtFrom,      \* history: artifact name -> the merged table it was computed from
    m_pc,           \* position of the build_index run
    limit,          \* the limit argument of the run: <<>> is None, <<n>> is n
    files,          \* the list glob() returned to merge_and_deduplicate
    m_i,            \* index of the unlink loop over files
    df,             \* the merged DataFrame (sequence of rows)
    embeddings,     \* the matrix returned by model.encode
    everMerged,     \* history: ids of every per-batch file a merge run has consumed
    lastKill,       \* history: how the previous run was interrupted
    nbatches,       \* number of enriched files produced so far (bounded)
    \* ---- feed harvester (arxiv_crawler.py) ----
    rawDir,         \* data/raw: file name -> file text
    h_pc,           \* position of the crawl_arxiv_to_jsonl run
    max_results,    \* the max_results argument
    fetched,        \* _fetch_results: entries received so far
    results,        \* _fetch_results: the entries accumulated
    deduped,        \* crawl_arxiv_to_jsonl: the records to write
    w_i,            \* _write_jsonl: index of the next record to write
    trace,          \* history: the page requests and delays of the run, in order
    \* ---- document enricher (preprocess.py, pdf_parser.py, llm_extract.py) ----
    archiveDir,     \* data/archive: file name -> file text
    pdfCache,       \* data/pdf_cache: cache path -> "complete" or "partial"
    e_pc,           \* position of the preprocess.main run
    raw_files,      \* main: the list glob() returned
    e_f,            \* main: index of the file being processed
    records,        \* process_raw_file: the records read
    enriched,       \* process_raw_file: the records enriched so far
    subfail,        \* history: the sub-steps that failed, per enriched record
    llm_calls,      \* history: the structured-extraction calls, per enriched record
    fileOutcome     \* history: file name -> how its processing ended

indexVars == <<processedDir, indexDir, builtFrom, m_pc, limit, files, m_i, df,
               embeddings, everMerged, lastKill, nbatches>>

indexLocal == <<indexDir, builtFrom, m_pc, limit, files, m_i, df, embeddings,
                everMerged, lastKill, nbatches>>

harvestVars == <<rawDir, h_pc, max_results, fetched, results, deduped, w_i, trace>>

harvestLocal == <<h_pc, max_results, fetched, results, deduped, w_i, trace>>

enrichVars == <<archiveDir, pdfCache, e_pc, raw_files, e_f, records, enriched,
                subfail, llm_calls, fileOutcome>>

vars == <<indexVars, harvestVars, enrichVars>>

-----------------------------------------------------------------------------
\* Bounds of the model
MaxBatches == 2      \* enriched files produced over a behaviour
MaxBatchLen == 2     \* records in one enriched file
MaxLimit == 1        \* largest --limit value tried
MaxResults == 3      \* largest max_results asked of the harvester
MaxPage == 2         \* most entries the feed returns in one page
MaxRawLen == 2       \* records in one staging file given to the enricher

-----------------------------------------------------------------------------
\* Generic helpers

None == "None"       \* Python None / JSON null, where the field is a string

Range(s) == {s[i] : i \in 1..Len(s)}

Perms(S) == {s \in [1..Cardinality(S) -> S] : \A i, j \in 1..Cardinality(S) : s[i] = s[j] => i = j}

Put(dir, name, text) == [n \in DOMAIN dir \cup {name} |-> IF n = name THEN text ELSE dir[n]]

Remove(dir, name) == [n \in DOMAIN dir \ {name} |-> dir[n]]

EmptyDir == [n \in {} |-> <<>>]

Min(a, b) == IF a < b THEN a ELSE b

Max(a, b) == IF a < b THEN b ELSE a

Prefix(s, n) == SubSeq(s, 1, Min(Max(n, 0), Len(s)))

\* File text is a sequence of tokens: a serialized JSON object, a newline, or
\* a piece of text that is not valid JSON (a record cut short).
NL == [t |-> "nl"]

BAD == [t |-> "bad"]

Dumps(d) == [t |-> "doc", d |-> d]

\* The lines a text file iteration yields: the pieces between newlines; a
\* final piece without newline is a line only when it is not empty.
RECURSIVE SplitLines(_, _)
SplitLines(text, cur) ==
    IF text = <<>> THEN (IF cur = <<>> THEN <<>> ELSE <<cur>>)
    ELSE IF Head(text) = NL THEN <<cur>> \o SplitLines(Tail(text), <<>>)
    ELSE SplitLines(Tail(text), Append(cur, Head(text)))

FileLines(text) == SplitLines(text, <<>>)

\* json.loads(line) succeeds exactly on one complete JSON value
Parses(line) == Len(line) = 1 /\ line[1].t = "doc"

\* `if line.strip()`: blank lines are skipped
NonBlank(lines) == SelectSeq(lines, LAMBDA l : l # <<>>)

Corrupt(text) == \E l \in Range(NonBlank(FileLines(text))) : ~Parses(l)

\* The records of the lines that parse (a reader raises on the first line that
\* does not: see Corrupt).
RECURSIVE LoadLines(_)
LoadLines(lines) ==
    IF lines = <<>> THEN <<>>
    ELSE IF Parses(Head(lines)) THEN <<Head(lines)[1].d>> \o LoadLines(Tail(lines))
    ELSE LoadLines(Tail(lines))

\* [json.loads(line) for line in f if line.strip()], for a text that is not Corrupt
ReadJsonl(text) == LoadLines(NonBlank(FileLines(text)))

\* DataFrame.to_json(orient="records", lines=True): every row followed by "\n"
RECURSIVE ToJsonLines(_)
ToJsonLines(rows) ==
    IF rows = <<>> THEN <<>>
    ELSE <<Dumps(Head(rows)), NL>> \o ToJsonLines(Tail(rows))

Ids(rows) == {rows[i].arxiv_id : i \in 1..Len(rows)}

NoDupIds(rows) == \A i, j \in 1..Len(rows) : rows[i].arxiv_id = rows[j].arxiv_id => i = j

-----------------------------------------------------------------------------
\* Enriched documents (the record preprocess.extract_metadata builds).  The
\* fields copied verbatim from the raw record and never read by the pipeline
\* (title, authors, categories, primary_category, published_date, crawl_date,
\* locations) are left out.

EnrichedDoc(id, abstract, pdf, summary) ==
    [arxiv_id |-> id, abstract |-> abstract, url_pdf |-> None, language |-> "en",
     pdf_raw |-> pdf, summary |-> summary, affiliations |-> <<>>, keywords |-> <<>>]

\* Two crawls of the same paper may carry different abstracts and summaries.
EnrichedDocs ==
    { EnrichedDoc("2401.00001", "abstract 1", "page one", "summary 1"),
      EnrichedDoc("2401.00001", "abstract 1 (v2)", "", None),
      EnrichedDoc("2401.00002", "", "", "summary 2") }


\* The rows an enriched file can hold: the harvester writes every id once per
\* file, and the enricher keeps one output record per input record.
BatchRows ==
    {r \in UNION {[1..n -> EnrichedDocs] : n \in 0..MaxBatchLen} : NoDupIds(r)}

\* A writer that puts the newline between the records only.
RECURSIVE EnrichedText_joined(_)
EnrichedText_joined(rows) ==
    IF rows = <<>> THEN <<>>
    ELSE IF Len(rows) = 1 THEN <<Dumps(Head(rows))>>
    ELSE <<Dumps(Head(rows)), NL>> \o EnrichedText_joined(Tail(rows))

\* A writer that leaves out the records that got no summary.
RECURSIVE EnrichedText_skipNoSummary(_)
EnrichedText_skipNoSummary(rows) ==
    IF rows = <<>> THEN <<>>
    ELSE (IF Head(rows).summary = None THEN <<>> ELSE <<Dumps(Head(rows)), NL>>)
             \o EnrichedText_skipNoSummary(Tail(rows))

\* process_raw_file writes json.dumps(doc) + "\n" for every record
RECURSIVE EnrichedText(_)
EnrichedText(rows) ==
    IF rows = <<>> THEN <<>>
    ELSE <<Dumps(Head(rows)), NL>> \o EnrichedText(Tail(rows))

-----------------------------------------------------------------------------
\* Index builder: src/src/index/build_index.py

MergedName == "merged.jsonl"

BatchNames == {"20240101_000000_cs_AI.jsonl", "20240102_000000_cs_AI.jsonl"}

Artifacts == {"embeddings.npy", "metadata.jsonl", "faiss.index"}

Absent == [present |-> FALSE, data |-> <<>>]

\* A run that raised ends at the name of its exception.
Raised == {"FileNotFoundError", "JSONDecodeError", "KeyError", "OSError"}

Terminal == {"idle", "done", "killed"} \cup Raised

\* A glob that leaves the snapshot out.
Glob_batchesOnly(dir) == DOMAIN dir \ {MergedName}

\* PROCESSED_DIR.glob("*.jsonl"): every .jsonl file of the directory, the
\* snapshot of an earlier run included; the order is the file system's.
Glob(dir) == DOMAIN dir

\* the nested loops of lines 25-30: every non-blank line of every file
RECURSIVE ReadAll(_, _)
ReadAll(dir, fs) ==
    IF fs = <<>> THEN <<>>
    ELSE ReadJsonl(dir[Head(fs)]) \o ReadAll(dir, Tail(fs))

RECURSIVE DropDup(_, _)
DropDup(rows, seen) ==
    IF rows = <<>> THEN <<>>
    ELSE IF Head(rows).arxiv_id \in seen THEN DropDup(Tail(rows), seen)
    ELSE <<Head(rows)>> \o DropDup(Tail(rows), seen \cup {Head(rows).arxiv_id})

\* A deduplication that keeps the last row of every id.
RECURSIVE drop_duplicates_last(_)
drop_duplicates_last(rows) ==
    IF rows = <<>> THEN <<>>
    ELSE IF \E j \in 2..Len(rows) : rows[j].arxiv_id = Head(rows).arxiv_id
         THEN drop_duplicates_last(Tail(rows))
         ELSE <<Head(rows)>> \o drop_duplicates_last(Tail(rows))

\* No deduplication at all.
drop_duplicates_none(rows) == rows

\* df.drop_duplicates(subset=["arxiv_id"]): keep="first"
drop_duplicates(rows) == DropDup(rows, {})

\* DataFrame.head(n): the first n rows; for n < 0 all but the last -n rows
head(rows, n) == IF n >= 0 THEN Prefix(rows, n) ELSE Prefix(rows, Len(rows) + n)

\* `if limit:` is false for None and for 0
Truthy(l) == l # <<>> /\ l[1] # 0

MergedTable(rows, l) ==
    LET d == drop_duplicates(rows)
    IN  IF Truthy(l) THEN head(d, l[1]) ELSE d

\* The reader that skips the lines json.loads rejects instead of raising.
MergeError_lenient(dir, fs) ==
    IF fs = <<>> THEN "FileNotFoundError"
    ELSE IF ReadAll(dir, fs) = <<>> THEN "KeyError"
    ELSE "ok"

\* What makes merge_and_deduplicate raise before it writes anything:
\* FileNotFoundError for an empty glob (line 23), json.loads on a line that is
\* not JSON (line 30), and pandas' KeyError when no record was read (line 33:
\* a DataFrame without columns has no "arxiv_id" to deduplicate on).
MergeError(dir, fs) ==
    IF fs = <<>> THEN "FileNotFoundError"
    ELSE IF \E i \in 1..Len(fs) : Corrupt(dir[fs[i]]) THEN "JSONDecodeError"
    ELSE IF ReadAll(dir, fs) = <<>> THEN "KeyError"
    ELSE "ok"

\* df["abstract"].fillna("").tolist()
fillna(a) == IF a = None THEN "" ELSE a

Texts(rows) == [i \in 1..Len(rows) |-> fillna(rows[i].abstract)]

\* model.encode(texts): one vector per text, in the order of the texts; the
\* vector is a function of its text alone.
encode(texts) == [i \in 1..Len(texts) |-> [vec |-> texts[i]]]

\* df[metadata_fields]: a projection of every row, rows and order kept
\* (pdf_raw is not in the whitelist)
MetaRow(r) ==
    [arxiv_id |-> r.arxiv_id, abstract |-> r.abstract, summary |-> r.summary,
     affiliations |-> r.affiliations, keywords |-> r.keywords,
     language |-> r.language, url_pdf |-> r.url_pdf]

\* A table that drops the rows whose abstract is empty.
MetadataTable_dropEmpty(rows) ==
    LET kept == SelectSeq(rows, LAMBDA r : r.abstract # "")
    IN  [i \in 1..Len(kept) |-> MetaRow(kept[i])]

MetadataTable(rows) == [i \in 1..Len(rows) |-> MetaRow(rows[i])]

\* index.add(embeddings): the vectors in matrix order
IndexAdd(matrix) == matrix

\* What a write cut short leaves of a text: a proper prefix, possibly ending
\* inside a record.
PartialWrites(text) ==
    {Prefix(text, k) : k \in 0..(Len(text) - 1)}
    \cup {Prefix(text, k) \o <<BAD>> : k \in {j \in 0..(Len(text) - 1) : text[j + 1] # NL}}

\* No harvest is running and data/raw is empty.
HarvestIdle ==
    /\ rawDir = EmptyDir
    /\ h_pc = "idle"
    /\ max_results = 0
    /\ fetched = 0
    /\ results = <<>>
    /\ deduped = <<>>
    /\ w_i = 0
    /\ trace = <<>>

\* No build has run and data/processed and index/faiss are empty.
IndexIdle ==
    /\ processedDir = EmptyDir
    /\ indexDir = [a \in Artifacts |-> Absent]
    /\ builtFrom = [a \in Artifacts |-> <<>>]
    /\ m_pc = "idle"
    /\ limit = <<>>
    /\ files = <<>>
    /\ m_i = 0
    /\ df = <<>>
    /\ embeddings = <<>>
    /\ everMerged = {}
    /\ lastKill = "none"
    /\ nbatches = 0

\* No enrichment has run; data/archive and data/pdf_cache are empty.
EnrichIdle ==
    /\ archiveDir = EmptyDir
    /\ pdfCache = EmptyDir
    /\ e_pc = "idle"
    /\ raw_files = <<>>
    /\ e_f = 0
    /\ records = <<>>
    /\ enriched = <<>>
    /\ subfail = <<>>
    /\ llm_calls = <<>>
    /\ fileOutcome = EmptyDir

InitIndex == IndexIdle /\ HarvestIdle /\ EnrichIdle

\* The process of a run that ended is gone, and its locals with it.
ExitRun(how) ==
    /\ m_pc' = how
    /\ limit' = <<>>
    /\ files' = <<>>
    /\ m_i' = 0
    /\ df' = <<>>
    /\ embeddings' = <<>>

\* An enrichment run leaves one more enriched file in data/processed
\* (preprocess.py lines 97-100).  A run killed while writing leaves the file
\* cut short.  Stages never run concurrently.
EnricherOutput(name, rows, cut) ==
    /\ m_pc \in Terminal
    /\ nbatches < MaxBatches
    /\ name \notin DOMAIN processedDir
    /\ processedDir' = Put(processedDir, name,
                           IF cut THEN EnrichedText(rows) \o <<BAD>> ELSE EnrichedText(rows))
    /\ nbatches' = nbatches + 1
    /\ UNCHANGED <<indexDir, builtFrom, m_pc, limit, files, m_i, df, embeddings,
                   everMerged, lastKill>>
    /\ UNCHANGED <<harvestVars, enrichVars>>

\* build_index calls merge_and_deduplicate: lines 21-36, which read and compute
\* but write nothing.
merge_load(l, order) ==
    /\ m_pc \in Terminal
    /\ lastKill' = IF m_pc = "killed" THEN lastKill ELSE "none"
    /\ IF MergeError(processedDir, order) # "ok"
       THEN ExitRun(MergeError(processedDir, order))
       ELSE /\ m_pc' = "to_json"
            /\ limit' = l
            /\ files' = order
            /\ m_i' = 1
            /\ df' = MergedTable(ReadAll(processedDir, order), l)
            /\ embeddings' = <<>>
    /\ UNCHANGED <<processedDir, indexDir, builtFrom, everMerged, nbatches>>
    /\ UNCHANGED <<harvestVars, enrichVars>>

\* df.to_json(merged_path, ...) line 40: the file is opened for writing (and so
\* emptied) ...
merge_open ==
    /\ m_pc = "to_json"
    /\ processedDir' = Put(processedDir, MergedName, <<>>)
    /\ m_pc' = "to_json_write"
    /\ UNCHANGED <<indexDir, builtFrom, limit, files, m_i, df, embeddings,
                   everMerged, lastKill, nbatches>>
    /\ UNCHANGED <<harvestVars, enrichVars>>

\* ... and then the rows are written.
merge_write ==
    /\ m_pc = "to_json_write"
    /\ processedDir' = Put(processedDir, MergedName, ToJsonLines(df))
    /\ m_pc' = "unlink"
    /\ UNCHANGED <<indexDir, builtFrom, limit, files, m_i, df, embeddings,
                   everMerged, lastKill, nbatches>>
    /\ UNCHANGED <<harvestVars, enrichVars>>

\* lines 43-45: one iteration of the loop that deletes the per-batch files
merge_unlink ==
    /\ m_pc = "unlink"
    /\ m_i <= Len(files)
    /\ IF files[m_i] # MergedName
       THEN /\ processedDir' = Remove(processedDir, files[m_i])
            /\ everMerged' = everMerged \cup Ids(ReadJsonl(processedDir[files[m_i]]))
       ELSE UNCHANGED <<processedDir, everMerged>>
    /\ m_i' = m_i + 1
    /\ UNCHANGED <<indexDir, builtFrom, m_pc, limit, files, df, embeddings,
                   lastKill, nbatches>>
    /\ UNCHANGED <<harvestVars, enrichVars>>

\* merge_and_deduplicate returns; lines 60-66: the model is loaded and the
\* abstracts are encoded.  Loading the model can fail (unknown model name, no
\* network): the exception leaves build_index.
load_and_encode(ok) ==
    /\ m_pc = "unlink"
    /\ m_i > Len(files)
    /\ IF ok
       THEN /\ m_pc' = "np_save"
            /\ embeddings' = encode(Texts(df))
            /\ UNCHANGED <<limit, files, m_i, df>>
       ELSE ExitRun("OSError")
    /\ UNCHANGED <<processedDir, indexDir, builtFrom, everMerged, lastKill, nbatches>>
    /\ UNCHANGED <<harvestVars, enrichVars>>

WriteArtifact(name, data) ==
    /\ indexDir' = [indexDir EXCEPT ![name] = [present |-> TRUE, data |-> data]]
    /\ builtFrom' = [builtFrom EXCEPT ![name] = df]

\* line 69: np.save(INDEX_DIR / "embeddings.npy", embeddings); an OSError
\* (directory not writable, disk full) leaves build_index.
np_save(ok) ==
    /\ m_pc = "np_save"
    /\ IF ok
       THEN /\ m_pc' = "meta_to_json"
            /\ WriteArtifact("embeddings.npy", embeddings)
            /\ UNCHANGED <<limit, files, m_i, df, embeddings>>
       ELSE ExitRun("OSError") /\ UNCHANGED <<indexDir, builtFrom>>
    /\ UNCHANGED <<processedDir, everMerged, lastKill, nbatches>>
    /\ UNCHANGED <<harvestVars, enrichVars>>

\* lines 72-78: the metadata table is written
meta_to_json(ok) ==
    /\ m_pc = "meta_to_json"
    /\ IF ok
       THEN /\ m_pc' = "write_index"
            /\ WriteArtifact("metadata.jsonl", ToJsonLines(MetadataTable(df)))
            /\ UNCHANGED <<limit, files, m_i, df, embeddings>>
       ELSE ExitRun("OSError") /\ UNCHANGED <<indexDir, builtFrom>>
    /\ UNCHANGED <<processedDir, everMerged, lastKill, nbatches>>
    /\ UNCHANGED <<harvestVars, enrichVars>>

\* lines 81-85: the index is built from the matrix and written; build_index
\* returns.
write_index(ok) ==
    /\ m_pc = "write_index"
    /\ IF ok
       THEN ExitRun("done") /\ WriteArtifact("faiss.index", IndexAdd(embeddings))
       ELSE ExitRun("OSError") /\ UNCHANGED <<indexDir, builtFrom>>
    /\ UNCHANGED <<processedDir, everMerged, lastKill, nbatches>>
    /\ UNCHANGED <<harvestVars, enrichVars>>

\* Some per-batch files of the run are already deleted and some are not.
MidDelete ==
    /\ m_pc = "unlink"
    /\ \E i \in 1..Len(files) : i < m_i /\ files[i] # MergedName
    /\ \E i \in 1..Len(files) : i >= m_i /\ files[i] # MergedName

\* The process is killed in the middle of a run.  Killed while the snapshot
\* is being written, it leaves the snapshot cut short.
Kill ==
    /\ m_pc \notin Terminal
    /\ ExitRun("killed")
    /\ lastKill' = IF MidDelete THEN "mid_delete" ELSE "other"
    /\ IF m_pc = "to_json_write"
       THEN \E text \in PartialWrites(ToJsonLines(df)) :
                processedDir' = Put(processedDir, MergedName, text)
       ELSE UNCHANGED processedDir
    /\ UNCHANGED <<indexDir, builtFrom, everMerged, nbatches>>
    /\ UNCHANGED <<harvestVars, enrichVars>>

Limits == {<<>>} \cup {<<n>> : n \in 0..MaxLimit}

NextIndex ==
    \/ \E name \in BatchNames, rows \in BatchRows, cut \in BOOLEAN :
           EnricherOutput(name, rows, cut)
    \/ \E l \in Limits, order \in Perms(Glob(processedDir)) : merge_load(l, order)
    \/ merge_open
    \/ merge_write
    \/ merge_unlink
    \/ \E ok \in BOOLEAN : load_and_encode(ok)
    \/ \E ok \in BOOLEAN : np_save(ok)
    \/ \E ok \in BOOLEAN : meta_to_json(ok)
    \/ \E ok \in BOOLEAN : write_index(ok)
    \/ Kill

SpecIndex == InitIndex /\ [][NextIndex]_vars

\* The runs that end on their own: nobody kills the process and no row limit
\* is given.
NextIndexRuns ==
    \/ \E name \in BatchNames, rows \in BatchRows, cut \in BOOLEAN :
           EnricherOutput(name, rows, cut)
    \/ \E order \in Perms(Glob(processedDir)) : merge_load(<<>>, order)
    \/ merge_open
    \/ merge_write
    \/ merge_unlink
    \/ \E ok \in BOOLEAN : load_and_encode(ok)
    \/ \E ok \in BOOLEAN : np_save(ok)
    \/ \E ok \in BOOLEAN : meta_to_json(ok)
    \/ \E ok \in BOOLEAN : write_index(ok)

SpecIndexRuns == InitIndex /\ [][NextIndexRuns]_vars

-----------------------------------------------------------------------------
\* Properties of the index builder

\* The rows of the canonical snapshot on disk
SnapshotRows ==
    IF MergedName \in DOMAIN processedDir THEN ReadJsonl(processedDir[MergedName]) ELSE <<>>

Embeddings == indexDir["embeddings.npy"]

Metadata == indexDir["metadata.jsonl"]

Faiss == indexDir["faiss.index"]

MetadataRows == ReadJsonl(Metadata.data)

\* C1: after a build_index run that completed, the embedding matrix, the
\* metadata table and the index hold the same number of entries, and the
\* vector at position i of the matrix and of the index is the encoding of the
\* abstract of metadata row i.
C1_OrdinalAlignment ==
    m_pc = "done" =>
        /\ Embeddings.present /\ Metadata.present /\ Faiss.present
        /\ Len(Embeddings.data) = Len(MetadataRows)
        /\ Len(Faiss.data) = Len(MetadataRows)
        /\ \A i \in 1..Len(MetadataRows) :
               /\ Embeddings.data[i] = [vec |-> MetadataRows[i].abstract]
               /\ Faiss.data[i] = [vec |-> MetadataRows[i].abstract]

\* a completed build of two rows with different abstracts, one of them empty
C1_Witness ==
    /\ m_pc = "done"
    /\ Len(MetadataRows) = 2
    /\ MetadataRows[1].abstract = ""
    /\ MetadataRows[2].abstract # ""

\* C2: whenever no merge is in progress, after runs made without a row limit,
\* the snapshot holds exactly one row for every id of every per-batch file the
\* merge runs have consumed so far.
C2_OneRowPerMergedId ==
    m_pc \notin {"to_json", "to_json_write", "unlink"} =>
        /\ NoDupIds(SnapshotRows)
        /\ Ids(SnapshotRows) = everMerged

\* a second merge has read the snapshot of the first together with a new
\* per-batch file, and has consumed that file
C2_Witness ==
    /\ m_pc = "np_save"
    /\ Len(files) = 2
    /\ MergedName \in Range(files)
    /\ nbatches = 2
    /\ Cardinality(everMerged) = 2
    /\ Len(SnapshotRows) = 2

\* a step that starts build_index
BuildStarts ==
    \E l \in Limits, order \in Perms(Glob(processedDir)) : merge_load(l, order)

RaisedUnchanged ==
    /\ m_pc' \in Raised
    /\ processedDir' = processedDir
    /\ indexDir' = indexDir

C9_ArtifactsFromOneSnapshot ==
    m_pc \in Raised \cup {"done"} =>
        /\ Embeddings.present = Metadata.present
        /\ Metadata.present = Faiss.present
        /\ builtFrom["embeddings.npy"] = builtFrom["metadata.jsonl"]
        /\ builtFrom["metadata.jsonl"] = builtFrom["faiss.index"]

\* C10: in and after the merge run that follows a run killed in the middle of
\* the deletions, once the snapshot is rewritten no id occurs twice in it.
C10_NoDuplicateAfterInterruptedDelete ==
    (lastKill = "mid_delete" /\ m_pc \in {"unlink", "np_save", "meta_to_json", "write_index", "done"})
        => NoDupIds(SnapshotRows)

\* the run after the kill has read the snapshot and a per-batch file the killed
\* run had already captured in it, and has rewritten the snapshot
C10_Witness ==
    /\ lastKill = "mid_delete"
    /\ m_pc = "unlink"
    /\ m_i = 1
    /\ Len(files) = 2
    /\ MergedName \in Range(files)
    /\ \E n \in DOMAIN processedDir \cap BatchNames :
           Ids(ReadJsonl(processedDir[n])) \cap Ids(SnapshotRows) # {}

-----------------------------------------------------------------------------
\* Feed harvester: src/src/datasource/arxiv_crawler.py

\* A feed id (the entry URL) is the sequence of its "/"-separated segments;
\* <<>> is the empty string of an entry without id.
\* summary is the abstract; pdf is the href of the link of type
\* application/pdf, None without such a link.
FeedEntry(id, summary, pdf) == [id |-> id, summary |-> summary, pdf |-> pdf]

PdfUrl1 == "http://arxiv.org/pdf/2401.00001v1"

PdfUrlNoScheme == "arxiv.org/pdf/math/0001001"

EntryFirst == FeedEntry(<<"arxiv.org", "abs", "2401.00001v1">>, "first", PdfUrl1)

EntrySecond == FeedEntry(<<"arxiv.org", "abs", "2401.00001v1">>, "second", PdfUrl1)

EntryCs == FeedEntry(<<"arxiv.org", "abs", "cs", "0001001">>, " cs paper ", None)

EntryMath == FeedEntry(<<"arxiv.org", "abs", "math", "0001001">>, "", PdfUrlNoScheme)

EntryNoId == FeedEntry(<<>>, "no id", None)

\* Two entries share a feed id and differ in content, two old-style ids
\* differ only in the archive segment, one entry has no id.
FeedEntries == {EntryFirst, EntrySecond, EntryCs, EntryMath, EntryNoId}

\* The pages the feed can answer with
Pages == UNION {[1..n -> FeedEntries] : n \in 0..MaxPage}

\* url.rsplit("/", 1)[-1]: the text after the last "/"
rsplit_last(url) == IF url = <<>> THEN "" ELSE url[Len(url)]

\* str.strip() on the texts of the model
strip(text) == IF text = " cs paper " THEN "cs paper" ELSE text

\* entry_to_rawdoc, lines 30-68 (the fields the pipeline only copies are left
\* out: title, authors, categories, dates, comment, journal_ref, doi)
entry_to_rawdoc(e) ==
    [arxiv_id |-> rsplit_last(e.id), abstract |-> strip(e.summary),
     url_abs |-> e.id, url_pdf |-> e.pdf]

Convert(entries) == [i \in 1..Len(entries) |-> entry_to_rawdoc(entries[i])]

\* A deduplication in which a later record replaces the earlier one.
RECURSIVE DedupeLast(_)
DedupeLast(docs) ==
    IF docs = <<>> THEN <<>>
    ELSE LET d == Head(docs)
             rest == DedupeLast(Tail(docs))
         IN  IF d.arxiv_id = "" \/ d.arxiv_id \in Ids(rest) THEN rest ELSE <<d>> \o rest

\* lines 159-164: `if aid and aid not in seen`
RECURSIVE DedupeFrom(_, _)
DedupeFrom(docs, seen) ==
    IF docs = <<>> THEN <<>>
    ELSE LET d == Head(docs)
         IN  IF d.arxiv_id # "" /\ d.arxiv_id \notin seen
             THEN <<d>> \o DedupeFrom(Tail(docs), seen \cup {d.arxiv_id})
             ELSE DedupeFrom(Tail(docs), seen)

Dedupe(docs) == DedupeFrom(docs, {})

ChunkCap == 2000

\* A page size that ignores what was already received.
Ask_whole(m, f) == Min(ChunkCap, m)

\* line 93: ask = min(2000, max_results - fetched)
Ask(m, f) == Min(ChunkCap, m - f)

\* A loop that stops on a failed request only.
PageStops_statusOnly(status, entries) == status # 200

\* lines 104-117: `if resp.status_code != 200: break`, `if not entries: break`
PageStops(status, entries) == status # 200 \/ entries = <<>>

\* line 123: time.sleep(4) ends every iteration that did not break
AfterPage(f, m) == "sleep"

OutPath == "20240103_000000_cs_AI.jsonl"

\* a request with its start and max_results parameters, and its answer
PageEvent(start, ask, status, entries) ==
    [e |-> "page", start |-> start, ask |-> ask, status |-> status, entries |-> entries]

SleepEvent == [e |-> "sleep"]

ErrorEvent == [e |-> "error"]

InitHarvest ==
    /\ IndexIdle
    /\ EnrichIdle
    /\ rawDir = EmptyDir
    /\ h_pc = "fetch"
    /\ max_results \in 0..MaxResults
    /\ fetched = 0
    /\ results = <<>>
    /\ deduped = <<>>
    /\ w_i = 0
    /\ trace = <<>>

\* One iteration of the while loop (lines 92-121): the request is answered
\* with a status and, for status 200, a page of entries.
fetch_page(status, entries) ==
    /\ h_pc = "fetch"
    /\ fetched < max_results
    /\ trace' = Append(trace, PageEvent(fetched, Ask(max_results, fetched), status, entries))
    /\ IF PageStops(status, entries)
       THEN h_pc' = "convert" /\ UNCHANGED <<results, fetched>>
       ELSE /\ results' = results \o entries
            /\ fetched' = fetched + Len(entries)
            /\ h_pc' = AfterPage(fetched', max_results)
    /\ UNCHANGED <<rawDir, max_results, deduped, w_i>>
    /\ UNCHANGED <<indexVars, enrichVars>>

\* requests.get raises (timeout, connection refused): the exception passes
\* the finally clause and leaves crawl_arxiv_to_jsonl.
fetch_raise ==
    /\ h_pc = "fetch"
    /\ fetched < max_results
    /\ trace' = Append(trace, ErrorEvent)
    /\ h_pc' = "raised"
    /\ UNCHANGED <<rawDir, max_results, fetched, results, deduped, w_i>>
    /\ UNCHANGED <<indexVars, enrichVars>>

\* line 123
sleep ==
    /\ h_pc = "sleep"
    /\ trace' = Append(trace, SleepEvent)
    /\ h_pc' = "fetch"
    /\ UNCHANGED <<rawDir, max_results, fetched, results, deduped, w_i>>
    /\ UNCHANGED <<indexVars, enrichVars>>

\* the while condition fails: _fetch_results returns
fetch_return ==
    /\ h_pc = "fetch"
    /\ ~(fetched < max_results)
    /\ h_pc' = "convert"
    /\ UNCHANGED <<rawDir, max_results, fetched, results, deduped, w_i, trace>>
    /\ UNCHANGED <<indexVars, enrichVars>>

\* lines 158-166 and 71-72: convert, deduplicate, open the output file
convert_dedupe_open ==
    /\ h_pc = "convert"
    /\ deduped' = Dedupe(Convert(results))
    /\ rawDir' = Put(rawDir, OutPath, <<>>)
    /\ w_i' = 1
    /\ h_pc' = "write"
    /\ UNCHANGED <<max_results, fetched, results, trace>>
    /\ UNCHANGED <<indexVars, enrichVars>>

\* lines 73-76: one record, then a newline unless it is the last
write_doc ==
    /\ h_pc = "write"
    /\ w_i <= Len(deduped)
    /\ rawDir' = Put(rawDir, OutPath,
                     rawDir[OutPath] \o <<Dumps(deduped[w_i])>>
                        \o (IF w_i < Len(deduped) THEN <<NL>> ELSE <<>>))
    /\ w_i' = w_i + 1
    /\ UNCHANGED <<h_pc, max_results, fetched, results, deduped, trace>>
    /\ UNCHANGED <<indexVars, enrichVars>>

\* the file is closed and crawl_arxiv_to_jsonl returns
crawl_return ==
    /\ h_pc = "write"
    /\ w_i > Len(deduped)
    /\ h_pc' = "done"
    /\ UNCHANGED <<rawDir, max_results, fetched, results, deduped, w_i, trace>>
    /\ UNCHANGED <<indexVars, enrichVars>>

NextHarvest ==
    \/ \E entries \in Pages : fetch_page(200, entries)
    \/ fetch_page(503, <<>>)
    \/ fetch_raise
    \/ sleep
    \/ fetch_return
    \/ convert_dedupe_open
    \/ write_doc
    \/ crawl_return

SpecHarvest == InitHarvest /\ [][NextHarvest]_vars

-----------------------------------------------------------------------------
\* Properties of the harvester

\* The records of the staging file of the run
StagingRecords ==
    IF OutPath \in DOMAIN rawDir THEN ReadJsonl(rawDir[OutPath]) ELSE <<>>

\* the position at which an id occurs first
FirstIndex(docs, id) ==
    CHOOSE i \in 1..Len(docs) :
        docs[i].arxiv_id = id /\ \A j \in 1..(i - 1) : docs[j].arxiv_id # id

\* C3: the staging file of a finished run holds every id at most once, the
\* record kept for an id is the first fetched with that id, and the kept
\* records are in fetch order.
C3_DedupKeepsFirstInOrder ==
    h_pc = "done" =>
        LET docs == Convert(results)
            recs == StagingRecords
        IN  /\ NoDupIds(recs)
            /\ \A k \in 1..Len(recs) :
                   \E i \in 1..Len(docs) :
                       /\ docs[i] = recs[k]
                       /\ \A j \in 1..(i - 1) : docs[j].arxiv_id # recs[k].arxiv_id
            /\ \A k, l \in 1..Len(recs) :
                   k < l => FirstIndex(docs, recs[k].arxiv_id) < FirstIndex(docs, recs[l].arxiv_id)

\* three entries were fetched, the third repeats the id of the first with other
\* content, and two records were written
C3_Witness ==
    /\ h_pc = "done"
    /\ Len(results) = 3
    /\ results[1].id = results[3].id
    /\ results[1] # results[3]
    /\ rsplit_last(results[2].id) \notin {"", rsplit_last(results[1].id)}
    /\ Len(StagingRecords) = 2

\* a page that stops the paging: a non-success status or no entries
Breaking(ev) == ev.e = "page" /\ (ev.status # 200 \/ ev.entries = <<>>)

\* the entries of the pages of a trace, in the order received
RECURSIVE Received(_)
Received(tr) ==
    IF tr = <<>> THEN <<>>
    ELSE (IF Head(tr).e = "page" THEN Head(tr).entries ELSE <<>>) \o Received(Tail(tr))

\* C6: a page with a non-success status or without entries is the last event
\* of the paging (no request follows it), the run goes on normally with exactly
\* the entries of the earlier pages in the order received, and the finished run
\* has written a staging file with the (deduplicated) records of those entries.
C6_StopKeepsPartialResults ==
    \A i \in 1..Len(trace) :
        Breaking(trace[i]) =>
            /\ i = Len(trace)
            /\ h_pc \in {"convert", "write", "done"}
            /\ results = Received(SubSeq(trace, 1, i - 1))
            /\ h_pc = "done" =>
                   /\ OutPath \in DOMAIN rawDir
                   /\ StagingRecords = Dedupe(Convert(Received(SubSeq(trace, 1, i - 1))))

\* a run that received a page of entries and then an empty page has finished
\* and written the records of the first page
C6_Witness ==
    /\ h_pc = "done"
    /\ Len(trace) = 3
    /\ trace[3].e = "page"
    /\ trace[3].status = 200
    /\ trace[3].entries = <<>>
    /\ Len(StagingRecords) >= 1

\* C7: every page request is followed by the delay before the next request
\* and before the paging returns, the last page requested included.
C7_DelayAfterEveryRequest ==
    \A i \in 1..Len(trace) :
        trace[i].e = "page" =>
            IF i < Len(trace) THEN trace[i + 1] = SleepEvent ELSE h_pc = "sleep"

\* What the loop does guarantee: every page that came back with status 200 and
\* at least one entry is followed by the delay, the last such page included,
\* and every request but the first comes right after a delay.
DelayAfterEveryAcceptedPage ==
    \A i \in 1..Len(trace) :
        /\ (trace[i].e = "page" /\ ~Breaking(trace[i])) =>
               IF i < Len(trace) THEN trace[i + 1] = SleepEvent ELSE h_pc = "sleep"
        /\ (trace[i].e \in {"page", "error"} /\ i > 1) => trace[i - 1] = SleepEvent

-----------------------------------------------------------------------------
\* Document enricher: src/src/preprocess/preprocess.py, pdf_parser.py,
\* llm_extract.py

RawNames == {"20240101_000000_cs_AI.jsonl", "20240102_000000_cs_AI.jsonl"}

\* The records the harvester leaves in staging files
RawDocs == {entry_to_rawdoc(e) : e \in {EntryFirst, EntryCs, EntryMath}}

\* _write_jsonl: a newline between the records, none after the last
RECURSIVE RawText(_)
RawText(docs) ==
    IF docs = <<>> THEN <<>>
    ELSE IF Len(docs) = 1 THEN <<Dumps(Head(docs))>>
    ELSE <<Dumps(Head(docs)), NL>> \o RawText(Tail(docs))

\* What data/raw can hold: complete staging files (every id once), and files a
\* killed harvest left cut short.
RawTexts ==
    {RawText(d) : d \in {r \in UNION {[1..n -> RawDocs] : n \in 0..MaxRawLen} : NoDupIds(r)}}
    \cup {<<BAD>>, <<Dumps(entry_to_rawdoc(EntryFirst)), NL, BAD>>}

RawDirs == UNION {[names -> RawTexts] : names \in SUBSET RawNames}

\* langdetect.detect raises on a text without features (the empty abstract);
\* detect_language (lines 29-33) turns that into "unknown"
detect_language(text) == IF text = "" THEN "unknown" ELSE "en"

\* url_pdf.startswith("http")
startswith_http(url) == url = PdfUrl1

\* _cached_pdf_path (pdf_parser.py lines 15-31).  The pattern of line 23 is a
\* raw string with doubled backslashes: it asks for a literal backslash and
\* matches no arXiv URL, so the name is always the md5 prefix of the URL.
cached_pdf_path(url) == <<"md5", url>>

\* An `except` clause that names ValueError only.
Caught_onlyValueError(exc) == exc = "ValueError"

\* `except Exception` (preprocess.py lines 66, 76, 86) catches every exception
\* a sub-step raises
Caught(exc) == exc \in {"ValueError", "APIError", "AttributeError"}

\* What the text service answers: the call raises, the answer is not JSON,
\* the answer is JSON but no object, or it is an object.
LlmFull == [affiliations |-> <<"MIT">>, keywords |-> <<"search">>, summary |-> "a summary"]

LlmOutcomes ==
    { [kind |-> "api_error"], [kind |-> "not_json"], [kind |-> "array"],
      [kind |-> "object", value |-> LlmFull] }

\* llm_extract.extract_metadata followed by the caller's result.get(...): the
\* exception that ends the try block, "" when there is none
LlmException(out) ==
    CASE out.kind = "api_error" -> "APIError"
      [] out.kind = "not_json" -> "ValueError"
      [] out.kind = "array" -> "AttributeError"
      [] OTHER -> ""

\* dict.get(key, default)
Get(d, key, default) == IF key \in DOMAIN d THEN d[key] ELSE default

DownloadOutcomes == {"ok", "http_error", "midstream"}

TextOutcomes == {"text", "fail"}

\* download_pdf (pdf_parser.py lines 34-58): [exc, path, cache]
download_pdf(url, cache, dl) ==
    IF ~startswith_http(url)
    THEN [exc |-> "ValueError", path |-> None, cache |-> cache]
    ELSE IF cached_pdf_path(url) \in DOMAIN cache
    THEN [exc |-> "", path |-> cached_pdf_path(url), cache |-> cache]
    ELSE CASE dl = "ok" ->
                [exc |-> "", path |-> cached_pdf_path(url),
                 cache |-> Put(cache, cached_pdf_path(url), "complete")]
           [] dl = "midstream" ->
                [exc |-> "", path |-> None,
                 cache |-> Put(cache, cached_pdf_path(url), "partial")]
           [] OTHER -> [exc |-> "", path |-> None, cache |-> cache]

\* extract_first_page_text (lines 77-88) with extract_first_page_text_from_pdf
\* (lines 61-74): [exc, text, cache, failed]
extract_first_page_text(url, cache, dl, tx) ==
    LET d == download_pdf(url, cache, dl)
    IN  IF d.exc # "" THEN [exc |-> d.exc, text |-> "", cache |-> d.cache, failed |-> {"download"}]
        ELSE IF d.path = None THEN [exc |-> "", text |-> "", cache |-> d.cache, failed |-> {"download"}]
        ELSE IF tx = "text" THEN [exc |-> "", text |-> "page one", cache |-> d.cache, failed |-> {}]
        ELSE [exc |-> "", text |-> "", cache |-> d.cache, failed |-> {"text"}]

\* An extract_metadata that falls back to the abstract when the call with the
\* first-page text fails.
extract_metadata_retry(doc, cache, dl, tx, llm) ==
    LET base == [arxiv_id |-> doc.arxiv_id, abstract |-> strip(doc.abstract),
                 url_pdf |-> doc.url_pdf, language |-> detect_language(doc.abstract),
                 pdf_raw |-> "", summary |-> None, affiliations |-> <<>>, keywords |-> <<>>]
        langfail == IF doc.abstract = "" THEN {"language"} ELSE {}
        hasurl == doc.url_pdf # None /\ doc.url_pdf # ""
        pdf == IF hasurl THEN extract_first_page_text(doc.url_pdf, cache, dl, tx)
               ELSE [exc |-> "", text |-> "", cache |-> cache, failed |-> {}]
        m1 == [base EXCEPT !.pdf_raw = IF pdf.exc = "" THEN pdf.text ELSE ""]
        withtext == m1.pdf_raw # ""
        first == IF withtext THEN [prompt |-> "BASE_PROMPT", text |-> m1.pdf_raw]
                 ELSE [prompt |-> "NOMETADATA_PROMPT", text |-> m1.abstract]
        lexc == LlmException(llm)
        calls == IF withtext /\ lexc # ""
                 THEN <<first, [prompt |-> "NOMETADATA_PROMPT", text |-> m1.abstract]>>
                 ELSE <<first>>
        m2 == IF lexc # "" THEN m1
              ELSE [m1 EXCEPT !.affiliations = Get(llm.value, "affiliations", <<>>),
                              !.keywords = Get(llm.value, "keywords", <<>>),
                              !.summary = Get(llm.value, "summary", "")]
    IN  [exc |-> "", doc |-> m2, cache |-> pdf.cache,
         failed |-> langfail \cup pdf.failed \cup (IF lexc # "" THEN {"llm"} ELSE {}),
         call |-> calls]

\* preprocess.extract_metadata (lines 36-88) on one record, given what the
\* sub-steps do: [exc, doc, cache, failed, call].  exc names the exception that
\* leaves the function, "" when it returns doc.
extract_metadata(doc, cache, dl, tx, llm) ==
    LET base == [arxiv_id |-> doc.arxiv_id, abstract |-> strip(doc.abstract),
                 url_pdf |-> doc.url_pdf, language |-> detect_language(doc.abstract),
                 pdf_raw |-> "", summary |-> None, affiliations |-> <<>>, keywords |-> <<>>]
        langfail == IF doc.abstract = "" THEN {"language"} ELSE {}
        hasurl == doc.url_pdf # None /\ doc.url_pdf # ""
        pdf == IF hasurl THEN extract_first_page_text(doc.url_pdf, cache, dl, tx)
               ELSE [exc |-> "", text |-> "", cache |-> cache, failed |-> {}]
        m1 == [base EXCEPT !.pdf_raw = IF pdf.exc = "" THEN pdf.text ELSE ""]
        withtext == m1.pdf_raw # ""
        call == IF withtext THEN [prompt |-> "BASE_PROMPT", text |-> m1.pdf_raw]
                ELSE [prompt |-> "NOMETADATA_PROMPT", text |-> m1.abstract]
        lexc == LlmException(llm)
        m2 == IF lexc # "" THEN m1
              ELSE IF withtext
              THEN [m1 EXCEPT !.affiliations = Get(llm.value, "affiliations", <<>>),
                              !.keywords = Get(llm.value, "keywords", <<>>),
                              !.summary = Get(llm.value, "summary", "")]
              ELSE [m1 EXCEPT !.keywords = Get(llm.value, "keywords", <<>>),
                              !.summary = Get(llm.value, "summary", "")]
    IN  IF pdf.exc # "" /\ ~Caught(pdf.exc)
        THEN [exc |-> pdf.exc, doc |-> base, cache |-> pdf.cache,
              failed |-> langfail \cup pdf.failed, call |-> <<>>]
        ELSE IF lexc # "" /\ ~Caught(lexc)
        THEN [exc |-> lexc, doc |-> m1, cache |-> pdf.cache,
              failed |-> langfail \cup pdf.failed \cup {"llm"}, call |-> <<call>>]
        ELSE [exc |-> "", doc |-> m2, cache |-> pdf.cache,
              failed |-> langfail \cup pdf.failed \cup (IF lexc # "" THEN {"llm"} ELSE {}),
              call |-> <<call>>]

InitEnrich ==
    /\ IndexIdle
    /\ rawDir \in RawDirs
    /\ h_pc = "idle"
    /\ max_results = 0
    /\ fetched = 0
    /\ results = <<>>
    /\ deduped = <<>>
    /\ w_i = 0
    /\ trace = <<>>
    /\ archiveDir = EmptyDir
    /\ pdfCache = EmptyDir
    /\ e_pc = "start"
    /\ raw_files = <<>>
    /\ e_f = 0
    /\ records = <<>>
    /\ enriched = <<>>
    /\ subfail = <<>>
    /\ llm_calls = <<>>
    /\ fileOutcome = [n \in DOMAIN rawDir |-> "pending"]

CurrentFile == raw_files[e_f]

\* the for loop of main goes on to the next file, or main returns
NextFile ==
    /\ e_f' = e_f + 1
    /\ e_pc' = IF e_f + 1 > Len(raw_files) THEN "done" ELSE "read"
    /\ records' = <<>>
    /\ enriched' = <<>>
    /\ subfail' = <<>>
    /\ llm_calls' = <<>>

\* A main without the per-file try: the exception ends the run.
fail_file_abort(stage) ==
    /\ fileOutcome' = [fileOutcome EXCEPT ![CurrentFile] = stage]
    /\ e_pc' = "done"
    /\ UNCHANGED <<e_f, records, enriched, subfail, llm_calls>>

\* main lines 112-116: an exception of process_raw_file is caught and
\* reported, and the loop goes on; stage says where it was raised
fail_file(stage) ==
    /\ fileOutcome' = [fileOutcome EXCEPT ![CurrentFile] = stage]
    /\ NextFile

\* main lines 106-109: the glob, in the file system's order
main_glob(order) ==
    /\ e_pc = "start"
    /\ raw_files' = order
    /\ e_f' = 1
    /\ e_pc' = IF order = <<>> THEN "done" ELSE "read"
    /\ UNCHANGED <<rawDir, processedDir, archiveDir, pdfCache, records, enriched,
                   subfail, llm_calls, fileOutcome>>
    /\ UNCHANGED <<indexLocal, harvestLocal>>

\* process_raw_file lines 92-93: the file is read and every non-blank line
\* parsed
read_raw_file ==
    /\ e_pc = "read"
    /\ IF Corrupt(rawDir[CurrentFile])
       THEN fail_file("read")
       ELSE /\ records' = ReadJsonl(rawDir[CurrentFile])
            /\ e_pc' = "records"
            /\ UNCHANGED <<e_f, enriched, subfail, llm_calls, fileOutcome>>
    /\ UNCHANGED <<rawDir, processedDir, archiveDir, pdfCache, raw_files>>
    /\ UNCHANGED <<indexLocal, harvestLocal>>

\* line 95: extract_metadata on the next record
enrich_record(dl, tx, llm) ==
    /\ e_pc = "records"
    /\ Len(enriched) < Len(records)
    /\ LET r == extract_metadata(records[Len(enriched) + 1], pdfCache, dl, tx, llm)
       IN  /\ pdfCache' = r.cache
           /\ IF r.exc # ""
              THEN fail_file("extract_metadata")
              ELSE /\ enriched' = Append(enriched, r.doc)
                   /\ subfail' = Append(subfail, r.failed)
                   /\ llm_calls' = Append(llm_calls, r.call)
                   /\ UNCHANGED <<e_pc, e_f, records, fileOutcome>>
    /\ UNCHANGED <<rawDir, processedDir, archiveDir, raw_files>>
    /\ UNCHANGED <<indexLocal, harvestLocal>>

\* lines 97-100: the output file is written; an OSError while writing leaves
\* it cut short
write_enriched(ok) ==
    /\ e_pc = "records"
    /\ Len(enriched) = Len(records)
    /\ IF ok
       THEN /\ processedDir' = Put(processedDir, CurrentFile, EnrichedText(enriched))
            /\ e_pc' = "move"
            /\ UNCHANGED <<e_f, records, enriched, subfail, llm_calls, fileOutcome>>
       ELSE /\ \E text \in PartialWrites(EnrichedText(enriched)) \cup {<<>>} :
                   processedDir' = Put(processedDir, CurrentFile, text)
            /\ fail_file("write")
    /\ UNCHANGED <<rawDir, archiveDir, pdfCache, raw_files>>
    /\ UNCHANGED <<indexLocal, harvestLocal>>

\* line 102: shutil.move(filepath, ARCHIVE_DIR / filepath.name)
move_to_archive(ok) ==
    /\ e_pc = "move"
    /\ IF ok
       THEN /\ archiveDir' = Put(archiveDir, CurrentFile, rawDir[CurrentFile])
            /\ rawDir' = Remove(rawDir, CurrentFile)
            /\ fileOutcome' = [fileOutcome EXCEPT ![CurrentFile] = "archived"]
            /\ NextFile
       ELSE /\ fail_file("move")
            /\ UNCHANGED <<rawDir, archiveDir>>
    /\ UNCHANGED <<processedDir, pdfCache, raw_files>>
    /\ UNCHANGED <<indexLocal, harvestLocal>>

NextEnrich ==
    \/ \E order \in Perms(DOMAIN rawDir) : main_glob(order)
    \/ read_raw_file
    \/ \E dl \in DownloadOutcomes, tx \in TextOutcomes, llm \in LlmOutcomes :
           enrich_record(dl, tx, llm)
    \/ \E ok \in BOOLEAN : write_enriched(ok)
    \/ \E ok \in BOOLEAN : move_to_archive(ok)

SpecEnrich == InitEnrich /\ [][NextEnrich]_vars

-----------------------------------------------------------------------------
\* Properties of the enricher

FailedStages == {"read", "extract_metadata", "write", "move"}

\* The records of a file on disk, as a reader of complete lines sees them
OutputRecords(text) == ReadJsonl(text)

\* C4: whichever sub-step fails on a record (language detection, PDF
\* download, first-page text extraction, the structured-extraction call or
\* the parsing of its answer), extract_metadata returns a record and does not
\* raise, the fields of the failed sub-step hold their defaults (language
\* "unknown", pdf_raw "", summary null, affiliations and keywords empty), and
\* the remaining records of the file are still processed: no file fails in
\* extract_metadata, and the output is written only when every record of the
\* file has its enriched record.
C4_SubStepFailureKeepsDefaults ==
    /\ \A f \in DOMAIN fileOutcome : fileOutcome[f] # "extract_metadata"
    /\ Len(enriched) <= Len(records)
    /\ Len(subfail) = Len(enriched)
    /\ \A k \in 1..Len(enriched) :
          /\ enriched[k].arxiv_id = records[k].arxiv_id
          /\ "language" \in subfail[k] => enriched[k].language = "unknown"
          /\ subfail[k] \cap {"download", "text"} # {} => enriched[k].pdf_raw = ""
          /\ "llm" \in subfail[k] =>
                /\ enriched[k].summary = None
                /\ enriched[k].affiliations = <<>>
                /\ enriched[k].keywords = <<>>
    /\ e_pc = "move" => Len(enriched) = Len(records)

\* A file of two records is about to be archived: on its first record the
\* language detection, the PDF download and the extraction call all failed,
\* and the second record was enriched without any failure.
C4_Witness ==
    /\ e_pc = "move"
    /\ Len(enriched) = 2
    /\ subfail[1] = {"language", "download", "llm"}
    /\ subfail[2] = {}
    /\ enriched[2].pdf_raw # ""
    /\ enriched[2].summary # None

\* C5: a raw file is in the archive only when its enriched output is
\* completely written (one parsable record per record of the raw file, same
\* ids in the same order); a file whose processing raised is still in the raw
\* directory and not in the archive; and when the run is over every file of
\* the batch has been attempted, whatever happened to the files before it.
C5_ArchiveAfterCompleteOutput ==
    /\ \A f \in DOMAIN archiveDir :
          /\ fileOutcome[f] = "archived"
          /\ f \notin DOMAIN rawDir
          /\ f \in DOMAIN processedDir
          /\ ~Corrupt(processedDir[f])
          /\ ~Corrupt(archiveDir[f])
          /\ Len(OutputRecords(processedDir[f])) = Len(ReadJsonl(archiveDir[f]))
          /\ \A k \in 1..Len(ReadJsonl(archiveDir[f])) :
                OutputRecords(processedDir[f])[k].arxiv_id = ReadJsonl(archiveDir[f])[k].arxiv_id
    /\ \A f \in DOMAIN fileOutcome :
          fileOutcome[f] \in FailedStages => f \in DOMAIN rawDir /\ f \notin DOMAIN archiveDir
    /\ e_pc = "done" =>
          \A f \in DOMAIN fileOutcome :
             /\ fileOutcome[f] # "pending"
             /\ fileOutcome[f] = "read" => Corrupt(rawDir[f])

\* The run is over: the first file of the batch could not be read and is
\* still in data/raw, the second file, processed after it, is archived with a
\* non-empty output.
C5_Witness ==
    /\ e_pc = "done"
    /\ Len(raw_files) = 2
    /\ fileOutcome[raw_files[1]] = "read"
    /\ raw_files[1] \in DOMAIN rawDir
    /\ fileOutcome[raw_files[2]] = "archived"
    /\ raw_files[2] \in DOMAIN archiveDir
    /\ Len(OutputRecords(processedDir[raw_files[2]])) = 2

-----------------------------------------------------------------------------
\* Index builder: runs without a row limit that may be killed

NextIndexKill ==
    \/ \E name \in BatchNames, rows \in BatchRows, cut \in BOOLEAN :
           EnricherOutput(name, rows, cut)
    \/ \E order \in Perms(Glob(processedDir)) : merge_load(<<>>, order)
    \/ merge_open
    \/ merge_write
    \/ merge_unlink
    \/ \E ok \in BOOLEAN : load_and_encode(ok)
    \/ \E ok \in BOOLEAN : np_save(ok)
    \/ \E ok \in BOOLEAN : meta_to_json(ok)
    \/ \E ok \in BOOLEAN : write_index(ok)
    \/ Kill

SpecIndexKill == InitIndex /\ [][NextIndexKill]_vars

\* The per-batch files of data/processed
BatchFiles == DOMAIN processedDir \ {MergedName}

\* The ids of the per-batch files that are on disk and readable
BatchIds == UNION {Ids(ReadJsonl(processedDir[f])) : f \in {g \in BatchFiles : ~Corrupt(processedDir[g])}}

\* C11: after a merge run was killed, at whatever point, the next merge run
\* does not raise, and its snapshot holds every id of the previous snapshot and
\* of every enriched file that was present when the killed run started.  In
\* runs without a limit these are the ids of the per-batch files consumed so
\* far (everMerged) and of the per-batch files still on disk.  Enriched files
\* that arrived cut short after the kill are not held against the merge.
C11_KilledRunRecoverable ==
    [][ ( /\ m_pc = "killed"
          /\ m_pc' # "killed"
          /\ \A f \in BatchFiles : ~Corrupt(processedDir[f]) )
        => ( /\ m_pc' = "to_json"
             /\ (everMerged \cup BatchIds) \subseteq Ids(df') ) ]_vars

\* C12: a merge run never reads the snapshot merged.jsonl as one of its
\* inputs; the files merged are the per-batch enriched files only.
C12_SnapshotNotAnInput ==
    \A i \in 1..Len(files) : files[i] # MergedName

\* C12 amended: a merge run reads every .jsonl file of data/processed, the
\* snapshot merged.jsonl of the previous run included whenever it exists: its
\* inputs are the per-batch files plus the snapshot, and without a limit every
\* id of the snapshot is in the merged table.
C12_SnapshotIsAnInput ==
    m_pc = "to_json" =>
        /\ Range(files) = DOMAIN processedDir
        /\ Len(files) = Cardinality(DOMAIN processedDir)
        /\ MergedName \in DOMAIN processedDir =>
              /\ \E i \in 1..Len(files) : files[i] = MergedName
              /\ Ids(ReadJsonl(processedDir[MergedName])) \subseteq Ids(df)

\* A run has read a non-empty snapshot together with a per-batch file.
C12_Witness ==
    /\ m_pc = "to_json"
    /\ MergedName \in Range(files)
    /\ BatchFiles # {}
    /\ SnapshotRows # <<>>
    /\ Len(df) = 2

-----------------------------------------------------------------------------
\* Index builder: runs with any integer given as --limit (argparse type=int
\* accepts zero and negative numbers), nobody kills the process

AnyLimits == Limits \cup {<<0 - n>> : n \in 1..MaxLimit}

NextIndexAnyLimit ==
    \/ \E name \in BatchNames, rows \in BatchRows, cut \in BOOLEAN :
           EnricherOutput(name, rows, cut)
    \/ \E l \in AnyLimits, order \in Perms(Glob(processedDir)) : merge_load(l, order)
    \/ merge_open
    \/ merge_write
    \/ merge_unlink
    \/ \E ok \in BOOLEAN : load_and_encode(ok)
    \/ \E ok \in BOOLEAN : np_save(ok)
    \/ \E ok \in BOOLEAN : meta_to_json(ok)
    \/ \E ok \in BOOLEAN : write_index(ok)

SpecIndexAnyLimit == InitIndex /\ [][NextIndexAnyLimit]_vars

\* merge_and_deduplicate has returned: the snapshot is written and the
\* per-batch files of the run are deleted
MergeReturned == m_pc = "unlink" /\ m_i > Len(files)

\* What a second merge_and_deduplicate(l) makes of the directory as it is:
\* the exception it raises, or the table it writes as the snapshot
SecondMergeError == MergeError(processedDir, <<MergedName>>)

SecondMerge(l) == MergedTable(ReadAll(processedDir, <<MergedName>>), l)

\* C13: a second merge run with the same limit argument and no enriched file
\* added in between leaves a snapshot with the same rows in the same order.
\* When the first merge has returned, data/processed holds the snapshot alone,
\* and the second run reads exactly that.
C13_MergeIdempotent ==
    MergeReturned =>
        /\ DOMAIN processedDir = {MergedName}
        /\ SecondMergeError = "ok"
        /\ SecondMerge(limit) = SnapshotRows

\* The ids of all files read by the run
UniqueIds == Ids(ReadAll(processedDir, files))

\* C14: for any integer limit L given to the build and U unique ids in the
\* files read, the snapshot, the embedding matrix and the index each have
\* min(L, U) rows, the first min(L, U) rows of the deduplicated merge order.
C14_LimitGivesMinRows ==
    /\ (m_pc = "to_json" /\ limit # <<>>) =>
          /\ Len(df) = Min(limit[1], Cardinality(UniqueIds))
          /\ df = Prefix(drop_duplicates(ReadAll(processedDir, files)), Len(df))
    /\ (m_pc \in {"unlink", "np_save", "meta_to_json", "write_index"} /\ limit # <<>>) =>
          Len(SnapshotRows) = Len(df)
    /\ (m_pc \in {"np_save", "meta_to_json", "write_index"} /\ limit # <<>>) =>
          Len(embeddings) = Len(df)

-----------------------------------------------------------------------------
\* The two writers of staging files: a harvest run, or an enrichment run over
\* files that harvest runs left in data/raw

InitStaging == InitHarvest \/ InitEnrich

NextStaging == NextHarvest \/ NextEnrich

SpecStaging == InitStaging /\ [][NextStaging]_vars

\* One JSON record per line: records and newlines alternate
OnePerLine(text) ==
    \A i \in 1..Len(text) :
        IF i % 2 = 1 THEN Parses(<<text[i]>>)
        ELSE text[i] = NL

NoTrailingNewline(text) == text = <<>> \/ text[Len(text)] # NL

EndsWithNewline(text) == text = <<>> \/ text[Len(text)] = NL

\* C15: every staging file written by the harvester and every enriched file
\* written by the enricher holds one JSON record per line with no newline
\* after the final record, and the enriched file has the name of the harvester
\* file it was made from.
C15_NoNewlineAfterLastRecord ==
    /\ h_pc = "done" =>
          OnePerLine(rawDir[OutPath]) /\ NoTrailingNewline(rawDir[OutPath])
    /\ \A f \in DOMAIN archiveDir :
          /\ f \in DOMAIN processedDir
          /\ OnePerLine(processedDir[f])
          /\ NoTrailingNewline(processedDir[f])

\* C15 amended: a harvester file holds one record per line with no newline
\* after the last record; an enriched file holds one record per line and every
\* record, the last included, is followed by a newline; the enriched file has
\* the name of the harvester file it was made from.
C15_NewlineAfterEveryEnrichedRecord ==
    /\ h_pc = "done" =>
          /\ OnePerLine(rawDir[OutPath])
          /\ NoTrailingNewline(rawDir[OutPath])
          /\ rawDir[OutPath] = RawText(deduped)
    /\ \A f \in DOMAIN archiveDir :
          /\ f \in DOMAIN processedDir
          /\ OnePerLine(processedDir[f])
          /\ EndsWithNewline(processedDir[f])
          /\ Len(processedDir[f]) = 2 * Len(ReadJsonl(archiveDir[f]))
          /\ OnePerLine(archiveDir[f]) /\ NoTrailingNewline(archiveDir[f])

\* A harvester file of two records is archived and its enriched file, of the
\* same name, ends with a newline.
C15_Witness ==
    \E f \in DOMAIN archiveDir :
        /\ Len(ReadJsonl(archiveDir[f])) = 2
        /\ f \in DOMAIN processedDir
        /\ Len(processedDir[f]) = 4
        /\ processedDir[f][4] = NL

-----------------------------------------------------------------------------
\* Harvester: runs that may be stopped

\* The process is stopped (killed, interrupted from the keyboard) at any
\* point of the run; whatever _write_jsonl has written so far stays on disk.
stop_harvest ==
    /\ h_pc \in {"fetch", "sleep", "convert", "write"}
    /\ h_pc' = "stopped"
    /\ UNCHANGED <<rawDir, max_results, fetched, results, deduped, w_i, trace>>
    /\ UNCHANGED <<indexVars, enrichVars>>

NextHarvestStop == NextHarvest \/ stop_harvest

SpecHarvestStop == InitHarvest /\ [][NextHarvestStop]_vars

\* C16: when a harvest run raised or was stopped before its final write
\* completed, data/raw holds no partially written staging file of that run:
\* the file is either not there or complete, with all deduplicated records.
C16_NoPartialStagingFile ==
    h_pc \in {"raised", "stopped"} =>
        \/ OutPath \notin DOMAIN rawDir
        \/ rawDir[OutPath] = RawText(Dedupe(Convert(results)))

-----------------------------------------------------------------------------
\* Properties of the enricher, continued

\* The non-blank lines of a raw file
InputLines(text) == NonBlank(FileLines(text))

\* C17: for every staging file that process_raw_file handled successfully
\* (it is archived), the enriched file holds exactly one record per non-blank
\* line of the input, in the input order, the i-th record carrying the
\* arxiv_id of the i-th input record, whichever sub-steps failed on it.
C17_OneOutputRecordPerInputLine ==
    \A f \in DOMAIN fileOutcome :
        fileOutcome[f] = "archived" =>
            LET inp == InputLines(archiveDir[f])
                out == OutputRecords(processedDir[f])
            IN  /\ Len(out) = Len(inp)
                /\ Len(NonBlank(FileLines(processedDir[f]))) = Len(inp)
                /\ \A i \in 1..Len(inp) : out[i].arxiv_id = inp[i][1].d.arxiv_id

\* A file of two records is archived; on its first record the PDF step and
\* the extraction call failed, on its second nothing failed, and the enriched
\* file holds both, in the input order.
C17_Witness ==
    \E f \in DOMAIN archiveDir :
        LET inp == InputLines(archiveDir[f])
            out == OutputRecords(processedDir[f])
        IN  /\ fileOutcome[f] = "archived"
            /\ Len(inp) = 2
            /\ Len(out) = 2
            /\ out[1].summary = None /\ out[1].pdf_raw = ""
            /\ out[2].summary # None /\ out[2].pdf_raw # ""
            /\ out[1].arxiv_id # out[2].arxiv_id

-----------------------------------------------------------------------------
\* Properties of the harvester, continued

\* The page requests of the run so far, as positions of the trace
PageRequests == {i \in 1..Len(trace) : trace[i].e = "page"}

\* The number of entries received on the pages before position i
ReceivedBefore(i) == Len(Received(SubSeq(trace, 1, i - 1)))

\* The feed never returned more entries than the page size asked for
FeedObeysPageSize == \A i \in PageRequests : Len(trace[i].entries) <= trace[i].ask

C19_OneExtractionCallPerRecord ==
    /\ Len(llm_calls) = Len(enriched)
    /\ \A k \in 1..Len(enriched) :
          /\ Len(llm_calls[k]) = 1
          /\ llm_calls[k][1].prompt \in {"BASE_PROMPT", "NOMETADATA_PROMPT"}
          /\ llm_calls[k][1].prompt = "BASE_PROMPT" <=> enriched[k].pdf_raw # ""
          /\ llm_calls[k][1].prompt = "BASE_PROMPT" =>
                llm_calls[k][1].text = enriched[k].pdf_raw
          /\ llm_calls[k][1].prompt = "NOMETADATA_PROMPT" =>
                /\ llm_calls[k][1].text = enriched[k].abstract
                /\ enriched[k].affiliations = <<>>

\* Two records of one file are enriched: for the first the call with the
\* first-page text failed and no second call was made; the second had no
\* first-page text, its call with the abstract succeeded and its affiliations
\* are empty although the answer named some.
C19_Witness ==
    /\ Len(enriched) = 2
    /\ enriched[1].pdf_raw # ""
    /\ "llm" \in subfail[1]
    /\ llm_calls[1] = <<[prompt |-> "BASE_PROMPT", text |-> enriched[1].pdf_raw]>>
    /\ enriched[2].pdf_raw = ""
    /\ "llm" \notin subfail[2]
    /\ llm_calls[2][1].prompt = "NOMETADATA_PROMPT"
    /\ enriched[2].summary = LlmFull.summary
    /\ enriched[2].affiliations = <<>>
    /\ LlmFull.affiliations # <<>>

-----------------------------------------------------------------------------
\* Properties of the index builder, continued

\* C20: the rows of the merged snapshot are, in order, the first occurrence of
\* every id met when the input files are read in the iteration order of the
\* merge and every file line by line: of an id present several times the
\* earliest-read row is kept, and the kept rows are in read order.
C20_FirstOccurrenceInReadOrder ==
    /\ m_pc = "to_json" =>
          LET rows == ReadAll(processedDir, files)
          IN  /\ Ids(df) = Ids(rows)
              /\ NoDupIds(df)
              /\ \A k \in 1..Len(df) : df[k] = rows[FirstIndex(rows, df[k].arxiv_id)]
              /\ \A k, l \in 1..Len(df) :
                    k < l => FirstIndex(rows, df[k].arxiv_id) < FirstIndex(rows, df[l].arxiv_id)
    /\ m_pc = "unlink" => SnapshotRows = df

\* Two files were read; the first row of the second file repeats the id of
\* the row of the first file with other content and is dropped, the second row
\* of the second file is kept after the row of the first file.
C20_Witness ==
    /\ m_pc = "to_json"
    /\ Len(files) = 2
    /\ LET rows == ReadAll(processedDir, files)
       IN  /\ Len(rows) = 3
           /\ Len(ReadJsonl(processedDir[files[1]])) = 1
           /\ rows[1].arxiv_id = rows[2].arxiv_id
           /\ rows[1] # rows[2]
           /\ df = <<rows[1], rows[3]>>

\* C21: whatever the limit argument, merge_and_deduplicate deletes a
\* per-batch enriched file only if every id of that file is in the snapshot it
\* has just written.
C21_DeleteOnlyWhatSnapshotHolds ==
    [][ \A f \in BatchFiles :
            f \notin DOMAIN processedDir' =>
                Ids(ReadJsonl(processedDir[f])) \subseteq Ids(SnapshotRows) ]_vars

\* C22: the PDF cache holds complete downloads only: a cache file exists for a
\* URL only if a download of that URL ran to its end, so a URL whose download
\* failed has no cache file and its next enrichment downloads again.
C22_CacheHoldsOnlyCompleteDownloads ==
    \A p \in DOMAIN pdfCache : pdfCache[p] = "complete"

-----------------------------------------------------------------------------
\* Termination of the paging loop

\* The harvester is one sequential process and every request has a timeout
\* (timeout=60, line 101), so a step that can be taken is taken.
SpecHarvestFair == InitHarvest /\ [][NextHarvest]_vars /\ WF_vars(NextHarvest)

\* the iterations of the while loop that did not leave it
NonTerminalIterations == {i \in PageRequests : ~Breaking(trace[i])}

\* the loop of lines 92-123 is over: left by a break or by the while
\* condition, or by an exception of the request
LoopLeft == h_pc \notin {"fetch", "sleep"}

\* C23: every iteration of the paging loop either leaves the loop or strictly
\* increases the number of entries fetched, at most max_results iterations do
\* not leave it, and the loop is left in the end.
C23_PagingTerminates ==
    /\ [][ (h_pc = "fetch" /\ h_pc' # "fetch") =>
               (LoopLeft' \/ fetched' > fetched) ]_vars
    /\ [](Cardinality(NonTerminalIterations) <= max_results)
    /\ <>LoopLeft

\* a run asked for several entries got them one per page and has finished
C23_Witness ==
    /\ h_pc = "done"
    /\ max_results > 1
    /\ Cardinality(NonTerminalIterations) = max_results

\* C24: the harvester's deduplication drops an entry only when an earlier
\* entry had the same feed id: entries with different feed ids get different
\* arxiv_id values and a non-empty feed id gives a non-empty arxiv_id, so the
\* first entry of every non-empty feed id is among the deduplicated records.
C24_DroppedOnlyForSameFeedId ==
    h_pc \in {"write", "done"} =>
        \A i \in 1..Len(results) :
            ( /\ results[i].id # <<>>
              /\ \A j \in 1..(i - 1) : results[j].id # results[i].id )
            => \E k \in 1..Len(deduped) : deduped[k].url_abs = results[i].id

=============================================================================
